---------------------------- MODULE Spec2Model ----------------------------
(***************************************************************************)
(* Model of the monitor / notification core of skynerd-assistant:          *)
(*   - the SQLite state store            (state.py)                        *)
(*   - the five monitors' check()        (monitors/*.py)                   *)
(*   - the daemon's start / _run_monitor (daemon.py)                       *)
(*                                                                         *)
(* Every I/O call of a check (remote request, store statement,             *)
(* notification or speech callback) may raise.  A check is applied as one  *)
(* step; the I/O call that raises, if any, is an input of the step         *)
(* (failAt = k: the k-th I/O call of the invocation raises, 0: none).      *)
(* A store statement that raises has no effect.                            *)
(*                                                                         *)
(* Each behaviour follows one unit (one monitor instance built with        *)
(* BaseMonitor's signature, the store used directly, or the daemon); the   *)
(* monitors share no state but the store, where they use disjoint keys.    *)
(***************************************************************************)
EXTENDS Integers, Sequences, FiniteSets, TLC

\* ------------------------------------------------------ program constants
\* new_emails[:3], new_overdue[:3]
NotifyCap == 3
\* 0 < minutes_until <= 15
CalendarWindow == 15

\* ------------------------------------------------------------- bounds
\* ids the server uses for emails and tasks: one more than the notification
\* cap, so that a cycle can have more new items than it notifies
NumIds == NotifyCap + 1
\* ids and list length for server reminders and voice notifications
NumSmallIds == 2
MaxSmallResp == 2
\* local reminders that are ever created; the clock's range in days
MaxLocal == 1
MaxStoreLocal == 2
\* the start() calls that overlap
MaxStarts == 2
MaxDay == 1

\* ------------------------------------------------------------- helpers
Range(s) == {s[i] : i \in DOMAIN s}

Min(a, b) == IF a <= b THEN a ELSE b

RECURSIVE ListOf(_)
\* list(a_set): the elements in some order
ListOf(S) ==
  IF S = {} THEN <<>>
  ELSE LET x == CHOOSE y \in S : TRUE IN <<x>> \o ListOf(S \ {x})

\* variant without the difference: every current id counts as new
NewIds_all(current, prev) == current

\* current_ids - prev_ids: the ids that are new in this cycle
NewIds(current, prev) == current \ prev

\* seq[:n]
Take(s, n) == SubSeq(s, 1, Min(n, Len(s)))

RECURSIVE SelectIn(_, _)
\* [x for x in s if x in S]
SelectIn(s, S) ==
  IF s = <<>> THEN <<>>
  ELSE (IF Head(s) \in S THEN <<Head(s)>> ELSE <<>>) \o SelectIn(Tail(s), S)

\* str(id) of a JSON integer id
Str(i) == ToString(i)

\* non-decreasing sequences over 1..n of length <= m: the lists a server
\* returns, up to the order of the items (repeated ids included)
SortedSeqs(n, m) ==
  UNION {{s \in [1..k -> 1..n] : \A i \in 1..(k - 1) : s[i] <= s[i + 1]} : k \in 0..m}


\* ------------------------------------------------------------ the store
\* session_state keys used by the monitors
SessionKeys ==
  {"email_unread_count", "email_high_priority", "task_overdue_ids",
   "reminder_notified_ids", "calendar_last_notified"}

\* json.loads of a row that holds JSON null, and the value of a missing row
Null == "null"

\* json.dumps(value): the text of a JSON value (None, an integer, a string
\* or a list of these)
json_dumps(value) == <<"json", value>>

\* json.loads(text)
json_loads(text) == text[2]

\* StateDB.get_session_value: the decoded value of the row, None without a row
get_session_value(session, key) ==
  IF key \in DOMAIN session THEN json_loads(session[key]) ELSE Null

\* variant of the read that never finds the row
SessionListOr_none(session, key) == <<>>

\* "get_session_value(key) or []"
SessionListOr(session, key) ==
  IF key \in DOMAIN session THEN json_loads(session[key]) ELSE <<>>

\* variant of set_session_value that empties the table before the INSERT
set_session_value_only(session, key, value) ==
  [k \in {key} |-> json_dumps(value)]

\* variant of set_session_value with INSERT OR IGNORE: an existing row stays
set_session_value_ignore(session, key, value) ==
  [k \in DOMAIN session \cup {key} |->
     IF k \in DOMAIN session THEN session[k] ELSE json_dumps(value)]

\* StateDB.set_session_value: INSERT ... ON CONFLICT(key) DO UPDATE
set_session_value(session, key, value) ==
  [k \in DOMAIN session \cup {key} |->
     IF k = key THEN json_dumps(value) ELSE session[k]]

\* StateDB.set_sync_state: INSERT ... ON CONFLICT(key) DO UPDATE
set_sync_state(sync, key, value) ==
  [k \in DOMAIN sync \cup {key} |-> IF k = key THEN value ELSE sync[k]]

\* StateDB.get_sync_state: the value of the row, None without a row
get_sync_state(sync, key) ==
  IF key \in DOMAIN sync THEN sync[key] ELSE Null

\* variant of was_notification_delivered whose SELECT never finds the row
was_notification_delivered_never(log, nid) == FALSE

\* StateDB.was_notification_delivered: SELECT 1 ... WHERE notification_id = ?
was_notification_delivered(log, nid) ==
  \E i \in DOMAIN log : log[i].notification_id = nid

\* INSERT INTO notification_log under the UNIQUE(notification_id) constraint
InsertLog(log, row) ==
  IF \E i \in DOMAIN log : log[i].notification_id = row.notification_id
  THEN [log |-> log, error |-> "IntegrityError"]
  ELSE [log |-> Append(log, row), error |-> "none"]

\* variant of log_notification without the "except IntegrityError: pass"
log_notification_noexcept(log, row) ==
  LET r == InsertLog(log, row)
  IN [log |-> r.log, raised |-> r.error # "none"]

\* StateDB.log_notification: the insert, "except aiosqlite.IntegrityError: pass"
log_notification(log, row) ==
  LET r == InsertLog(log, row)
  IN [log |-> r.log, raised |-> r.error \notin {"none", "IntegrityError"}]

\* timestamps as the store compares them: TEXT, compared character by
\* character.  <<date, separator, time of day>>; datetime.isoformat() writes
\* the separator "T", SQLite's datetime('now') writes a blank (" " < "T").
SepBlank == 0
SepT == 1
IsoFormat(t) == <<t.day, SepT, t.minute>>
SqliteNow(t) == <<t.day, SepBlank, t.minute>>

\* a <= b for two such texts
TextLE(a, b) ==
  \/ a[1] < b[1]
  \/ a[1] = b[1] /\ a[2] < b[2]
  \/ a[1] = b[1] /\ a[2] = b[2] /\ a[3] <= b[3]

\* StateDB.set_last_sync(monitor) at time t: the key is f"last_sync_{monitor}"
set_last_sync(sync, monitor, t) ==
  set_sync_state(sync, "last_sync_" \o monitor, IsoFormat(t))

\* StateDB.add_local_reminder: the row gets the next autoincrement id
add_local_reminder(rows, due_at) ==
  Append(rows, [id |-> Len(rows) + 1, due_at |-> IsoFormat(due_at),
                is_completed |-> FALSE, notification_sent |-> FALSE])

RowIsDue(r, t) ==
  /\ ~r.is_completed
  /\ ~r.notification_sent
  /\ TextLE(r.due_at, SqliteNow(t))

RECURSIVE SortByDue(_)
\* ORDER BY due_at (rows of equal due_at in id order)
SortByDue(S) ==
  IF S = {} THEN <<>>
  ELSE LET r == CHOOSE x \in S : \A y \in S :
                  \/ x = y
                  \/ ~TextLE(y.due_at, x.due_at)
                  \/ (TextLE(x.due_at, y.due_at) /\ x.id < y.id)
       IN <<r>> \o SortByDue(S \ {r})

\* StateDB.get_due_reminders
get_due_reminders(rows, t) ==
  SortByDue({rows[i] : i \in {j \in DOMAIN rows : RowIsDue(rows[j], t)}})

\* StateDB.mark_reminder_notified: UPDATE ... SET notification_sent = 1
mark_reminder_notified(rows, rid) ==
  [i \in DOMAIN rows |->
     IF rows[i].id = rid THEN [rows[i] EXCEPT !.notification_sent = TRUE]
     ELSE rows[i]]

\* variant of mark_reminder_complete that deletes the row
mark_reminder_complete_delete(rows, rid) ==
  SelectSeq(rows, LAMBDA r : r.id # rid)

\* StateDB.mark_reminder_complete: UPDATE ... SET is_completed = 1
mark_reminder_complete(rows, rid) ==
  [i \in DOMAIN rows |->
     IF rows[i].id = rid THEN [rows[i] EXCEPT !.is_completed = TRUE]
     ELSE rows[i]]

\* variant of _init_schema that creates the tables anew (DROP, then CREATE)
init_schema_recreate(tables) == [session |-> <<>>, log |-> <<>>, rows |-> <<>>]

\* StateDB._init_schema on the tables of the database file
\* [session, log, rows]: CREATE TABLE IF NOT EXISTS keeps existing rows
init_schema(tables) == tables


\* ------------------------------------------- one invocation of check()
\* The context of a running check(): the store as the invocation sees it,
\* the number of I/O calls made so far, whether an exception is in flight,
\* and what the invocation has done (a record of its calls, for the
\* properties):
\*   attempted  item ids passed to notify() / on_speak(), in call order
\*   delivered  those for which the call returned
\*   marked     voice ids the server acknowledged as delivered
\*   logfail    voice ids spoken whose log_notification then raised
\*   markCalls  the calls of mark_voice_notification_delivered: [call, nid],
\*              call the number of the I/O call in the invocation
\*   crashing   the failAt-th call is where the process dies, not an
\*              exception: no handler runs
\*   fault      the kind of call that raised: "remote" (client), "storage",
\*              "callback" (on_notification, on_speak) or "parse"
NewCtx(session, log, rows) ==
  [session |-> session, log |-> log, rows |-> rows,
   calls |-> 0, raised |-> FALSE, fault |-> "none",
   attempted |-> <<>>, delivered |-> <<>>, marked |-> <<>>, logfail |-> <<>>,
   markCalls |-> <<>>, crashing |-> FALSE]

\* one I/O call (an await on the client, the store or a callback): it raises
\* when it is the failAt-th call of the invocation.  Nothing runs while an
\* exception is in flight.
Io(c, failAt, what) ==
  IF c.raised THEN c
  ELSE [c EXCEPT !.calls = @ + 1, !.raised = (c.calls + 1 = failAt),
                 !.fault = IF c.calls + 1 = failAt THEN what ELSE @]

\* await self.state.set_session_value(key, value)
CtxSetSession(c, failAt, key, value) ==
  LET d == Io(c, failAt, "storage")
  IN IF d.raised THEN d
     ELSE [d EXCEPT !.session = set_session_value(c.session, key, value)]

\* BaseMonitor.notify: awaits the callback when there is one, else logs
BaseMonitor_notify(c, failAt, hasCallback, item) ==
  IF c.raised THEN c
  ELSE LET d == IF hasCallback THEN Io(c, failAt, "callback") ELSE c
           e == [d EXCEPT !.attempted = Append(@, item)]
       IN IF e.raised THEN e
          ELSE [e EXCEPT !.delivered = Append(@, item)]

RECURSIVE NotifyEach(_, _, _, _)
\* for item in items: await self.notify(...)
NotifyEach(c, failAt, hasCallback, items) ==
  IF items = <<>> \/ c.raised THEN c
  ELSE NotifyEach(BaseMonitor_notify(c, failAt, hasCallback, Head(items)),
                  failAt, hasCallback, Tail(items))

\* variant of a check() without the "except Exception" handler
CheckResult_nohandler(c, summary) ==
  IF c.raised
  THEN [kind |-> "raised", summary |-> <<>>, ctx |-> c]
  ELSE [kind |-> "summary", summary |-> summary, ctx |-> c]

\* "except Exception as e: ... return {"error": str(e)}" around the body of
\* every check(): the result of the invocation
\*   kind "summary": the body returned its summary map
\*   kind "error":   the body raised and the handler returned {"error": ...}
\*   kind "raised":  the exception left check()
\* (ctx: the context the body ended with, ctx.raised: by an exception)
CheckResult(c, summary) ==
  IF c.raised
  THEN [kind |-> "error", summary |-> <<>>, ctx |-> c]
  ELSE [kind |-> "summary", summary |-> summary, ctx |-> c]

\* ------------------------------------------------------- EmailMonitor
\* resp: the server's answer, [emails |-> list of ids, total |-> total_count]
EmailMonitor_check(c0, resp, failAt, hasCallback) ==
  LET c1 == Io(c0, failAt, "remote")  \* get_unread_emails
      c2 == Io(c1, failAt, "storage")  \* get "email_unread_count"
      c3 == Io(c2, failAt, "storage")  \* get "email_high_priority"
      prev_high_priority == SessionListOr(c0.session, "email_high_priority")
      current_ids == Range(resp.emails)
      prev_ids == Range(prev_high_priority)
      new_ids == NewIds(current_ids, prev_ids)
      c4 == CtxSetSession(c3, failAt, "email_unread_count", resp.total)
      c5 == CtxSetSession(c4, failAt, "email_high_priority", ListOf(current_ids))
      new_emails == SelectIn(resp.emails, new_ids)
      c6 == NotifyEach(c5, failAt, hasCallback, Take(new_emails, NotifyCap))
  IN CheckResult(c6, [unread_count |-> resp.total,
                      high_priority_count |-> Len(resp.emails),
                      new_high_priority |-> Cardinality(new_ids)])

\* -------------------------------------------------------- TaskMonitor
\* resp: [tasks |-> list of [id, is_overdue], total |-> total_count]
\* variant of the two comprehensions without their conditions
SelectOverdue_all(tasks, flag) == tasks

RECURSIVE SelectOverdue(_, _)
SelectOverdue(tasks, flag) ==
  IF tasks = <<>> THEN <<>>
  ELSE (IF Head(tasks).is_overdue = flag THEN <<Head(tasks)>> ELSE <<>>)
       \o SelectOverdue(Tail(tasks), flag)

RECURSIVE SelectNewOverdue(_, _)
\* [t for t in overdue_tasks if str(t["id"]) in new_overdue_ids]
SelectNewOverdue(tasks, ids) ==
  IF tasks = <<>> THEN <<>>
  ELSE (IF Str(Head(tasks).id) \in ids THEN <<Str(Head(tasks).id)>> ELSE <<>>)
       \o SelectNewOverdue(Tail(tasks), ids)

TaskMonitor_check(c0, resp, failAt, hasCallback) ==
  LET c1 == Io(c0, failAt, "remote")  \* get_upcoming_tasks
      c2 == Io(c1, failAt, "storage")  \* get "task_overdue_ids"
      prev_overdue_ids == Range(SessionListOr(c0.session, "task_overdue_ids"))
      overdue_tasks == SelectOverdue(resp.tasks, TRUE)
      due_today_tasks == SelectOverdue(resp.tasks, FALSE)
      current_overdue_ids == {Str(overdue_tasks[i].id) : i \in DOMAIN overdue_tasks}
      new_overdue_ids == NewIds(current_overdue_ids, prev_overdue_ids)
      c3 == CtxSetSession(c2, failAt, "task_overdue_ids", ListOf(current_overdue_ids))
      new_overdue == SelectNewOverdue(overdue_tasks, new_overdue_ids)
      c4 == NotifyEach(c3, failAt, hasCallback, Take(new_overdue, NotifyCap))
  IN CheckResult(c4, [total_upcoming |-> resp.total,
                      overdue_count |-> Len(overdue_tasks),
                      due_today_count |-> Len(due_today_tasks),
                      new_overdue |-> Cardinality(new_overdue_ids)])


\* ---------------------------------------------------- CalendarMonitor
\* resp: the "calendar" part of the status,
\*   [present |-> whether next_event is there,
\*    id |-> its id (Null when it has none),
\*    start |-> "none" (no start_time), "bad" (not an ISO time) or "ok",
\*    minutes |-> (start_time - now) in minutes when start = "ok"]
Raise(c) ==
  IF c.raised THEN c ELSE [c EXCEPT !.raised = TRUE, !.fault = "parse"]

\* variant of the window test with "<" for "<="
InWindow_strict(minutes_until) == 0 < minutes_until /\ minutes_until < CalendarWindow

\* 0 < minutes_until <= 15
InWindow(minutes_until) == 0 < minutes_until /\ minutes_until <= CalendarWindow

CalendarMonitor_check(c0, resp, failAt, hasCallback) ==
  LET c1 == Io(c0, failAt, "remote")  \* get_status
      c2 == IF resp.present /\ resp.start = "bad"
            THEN Raise(c1)                     \* datetime.fromisoformat
            ELSE c1
      reads == resp.present /\ resp.start = "ok"
      c3 == IF reads THEN Io(c2, failAt, "storage") ELSE c2  \* get "calendar_last_notified"
      last_notified == get_session_value(c0.session, "calendar_last_notified")
      due == reads /\ InWindow(resp.minutes) /\ last_notified # resp.id
      c4 == IF due THEN BaseMonitor_notify(c3, failAt, hasCallback, resp.id) ELSE c3
      c5 == IF due THEN CtxSetSession(c4, failAt, "calendar_last_notified", resp.id)
            ELSE c4
  IN CheckResult(c5, [next_event |-> resp.present])

\* ---------------------------------------------------- ReminderMonitor
\* variant of the loop without the "not in notified_ids" test
NewDue_all(ids, notified_ids) == [i \in DOMAIN ids |-> Str(ids[i])]

RECURSIVE NewDue(_, _)
\* the loop over due_reminders: the ids not yet in notified_ids, each once
NewDue(ids, notified_ids) ==
  IF ids = <<>> THEN <<>>
  ELSE IF Str(Head(ids)) \in notified_ids
       THEN NewDue(Tail(ids), notified_ids)
       ELSE <<Str(Head(ids))>> \o NewDue(Tail(ids), notified_ids \cup {Str(Head(ids))})

\* the item id under which a local reminder's notification is recorded
LocalItem(rid) == "local-" \o ToString(rid)

RECURSIVE NotifyLocal(_, _, _, _)
\* for local_reminder in local_due: notify, then mark_reminder_notified
NotifyLocal(c, failAt, hasCallback, due) ==
  IF due = <<>> \/ c.raised THEN c
  ELSE LET d == BaseMonitor_notify(c, failAt, hasCallback, LocalItem(Head(due).id))
           e == Io(d, failAt, "storage")  \* mark_reminder_notified
           g == IF e.raised THEN e
                ELSE [e EXCEPT !.rows = mark_reminder_notified(d.rows, Head(due).id)]
       IN NotifyLocal(g, failAt, hasCallback, Tail(due))

\* resp: the list of the server's due reminder ids; t: the current time
ReminderMonitor_check(c0, resp, failAt, hasCallback, t) ==
  LET c1 == Io(c0, failAt, "remote")  \* client.get_due_reminders
      c2 == Io(c1, failAt, "storage")  \* get "reminder_notified_ids"
      prev == Range(SessionListOr(c0.session, "reminder_notified_ids"))
      new_due == NewDue(resp, prev)
      notified_ids == prev \cup Range(new_due)
      c3 == CtxSetSession(c2, failAt, "reminder_notified_ids", ListOf(notified_ids))
      c4 == NotifyEach(c3, failAt, hasCallback, new_due)
      c5 == Io(c4, failAt, "storage")  \* state.get_due_reminders
      local_due == get_due_reminders(c0.rows, t)
      c6 == NotifyLocal(c5, failAt, hasCallback, local_due)
  IN CheckResult(c6, [server_due |-> Len(resp),
                      new_notifications |-> Len(new_due),
                      local_due |-> Len(local_due)])

\* ------------------------------------------------------- VoiceMonitor
\* a pending notification: [id, spoken_message, full_message], the messages
\* "" when absent
VoiceText(n) == IF n.spoken_message # "" THEN n.spoken_message ELSE n.full_message

\* variant of MarkDelivered without the inner try/except: the exception of
\* the remote call is left to the handler of check()
MarkDelivered_raising(c, failAt, nid) ==
  LET d == [Io(c, failAt, "remote") EXCEPT
              !.markCalls = Append(@, [call |-> c.calls + 1, nid |-> nid])]
  IN IF d.raised THEN d ELSE [d EXCEPT !.marked = Append(@, nid)]

\* "try: await self.client.mark_voice_notification_delivered(id)
\*  except Exception: logger.warning(...)"
MarkDelivered(c, failAt, nid) ==
  LET d == [Io(c, failAt, "remote") EXCEPT
              !.markCalls = Append(@, [call |-> c.calls + 1, nid |-> nid])]
  IN IF d.raised /\ ~d.crashing
     THEN [d EXCEPT !.raised = FALSE, !.fault = "none"]
     ELSE IF d.raised THEN d
     ELSE [d EXCEPT !.marked = Append(@, nid)]

\* the body of the loop for one notification
VoiceOne(c, failAt, hasSpeak, n) ==
  LET nid == Str(n.id)
      c1 == Io(c, failAt, "storage")  \* was_notification_delivered
      skip == was_notification_delivered(c.log, nid)
      spoken_message == VoiceText(n)
      c2 == IF hasSpeak THEN Io(c1, failAt, "callback") ELSE c1  \* on_speak
      c3 == IF hasSpeak /\ ~c1.raised
            THEN [c2 EXCEPT !.attempted = Append(@, nid),
                            !.delivered = IF c2.raised THEN @ ELSE Append(@, nid)]
            ELSE c2
      c4 == Io(c3, failAt, "storage")  \* log_notification
      logged == log_notification(c3.log,
                  [notification_id |-> nid, notification_type |-> "",
                   title |-> "", message |-> spoken_message, spoken |-> TRUE])
      c5 == IF c3.raised THEN c3
            ELSE IF c4.raised \/ logged.raised
                 THEN [c4 EXCEPT !.raised = TRUE,
                                 !.logfail = IF hasSpeak THEN Append(@, nid) ELSE @]
                 ELSE [c4 EXCEPT !.log = logged.log]
      c7 == IF c5.raised THEN c5 ELSE MarkDelivered(c5, failAt, nid)
  IN IF c1.raised \/ skip \/ spoken_message = "" THEN c1 ELSE c7

RECURSIVE VoiceEach(_, _, _, _)
VoiceEach(c, failAt, hasSpeak, ns) ==
  IF ns = <<>> \/ c.raised THEN c
  ELSE VoiceEach(VoiceOne(c, failAt, hasSpeak, Head(ns)), failAt, hasSpeak, Tail(ns))

VoiceMonitor_check(c0, resp, failAt, hasSpeak) ==
  LET c1 == Io(c0, failAt, "remote")  \* get_pending_voice_notifications
      c2 == VoiceEach(c1, failAt, hasSpeak, resp)
  IN CheckResult(c2, [pending_count |-> Len(resp),
                      played_count |-> Len(c2.delivered)])



\* ---------------------------------------------------- AssistantDaemon
\* the keyword parameters of BaseMonitor.__init__(self, client, state,
\* on_notification=None)
BaseMonitorParams == {"client", "state", "on_notification"}

\* VoiceMonitor.__init__(self, *args, on_speak=None, **kwargs) takes on_speak
\* and hands every other keyword to BaseMonitor.__init__
VoiceMonitorParams == BaseMonitorParams \cup {"on_speak"}

MonitorParams(name) ==
  IF name = "voice" THEN VoiceMonitorParams ELSE BaseMonitorParams

\* the keywords _init_monitors passes: **common_deps, and tts_engine for voice
CommonDeps == {"client", "state", "desktop_notifier", "slack_notifier"}

MonitorKwargs(name) ==
  IF name = "voice" THEN CommonDeps \cup {"tts_engine"} ELSE CommonDeps

\* the constructor call returns: no unexpected keyword argument (TypeError)
Constructs(name) == MonitorKwargs(name) \subseteq MonitorParams(name)

\* the order in which _init_monitors builds and registers the monitors
MonitorOrder == <<"email", "tasks", "calendar", "reminders", "voice">>

RECURSIVE init_monitors(_, _)
\* AssistantDaemon._init_monitors: self.monitors[name] = XMonitor(...), one
\* after the other; a constructor that raises ends it
init_monitors(registered, names) ==
  IF names = <<>> THEN [monitors |-> registered, raised |-> FALSE]
  ELSE IF ~Constructs(Head(names)) THEN [monitors |-> registered, raised |-> TRUE]
  ELSE init_monitors(registered \cup {Head(names)}, Tail(names))

\* AssistantDaemon.__init__ with settings.ollama.enabled = ollama_enabled
\*   store      "none", "unconnected" (a StateDB whose connect() raised),
\*              "open", "closed"
\*   client     "none", "constructed", "closed" (SkyNerdClient; connect() is
\*              called nowhere)
\*   ollama     "none", "constructed", "closed" (OllamaClient)
\*   scheduler  "none", "created", "running", "shutdown"
\*   jobs       the monitors that have an interval job
\*   round      the monitors whose check() ran in the initial round
\*   events     what the last call of start / stop / run_forever did, in order
NewDaemon(ollama_enabled) ==
  [ollama_enabled |-> ollama_enabled,
   running |-> FALSE, store |-> "none", client |-> "none", ollama |-> "none",
   monitors |-> {}, scheduler |-> "none", jobs |-> {}, round |-> {},
   events |-> <<>>]

\* AssistantDaemon.initialize; connectFails: state.connect() raises
initialize(d, connectFails) ==
  LET d1 == [d EXCEPT !.store = "open", !.client = "constructed",
                      !.ollama = IF d.ollama_enabled THEN "constructed" ELSE @,
                      !.events = @ \o <<"state.connect">>]
      m == init_monitors({}, MonitorOrder)
  IN IF connectFails
     THEN [d |-> [d EXCEPT !.store = "unconnected"], raised |-> TRUE]
     ELSE IF m.raised
     THEN [d |-> [d1 EXCEPT !.monitors = m.monitors], raised |-> TRUE]
     ELSE [d |-> [d1 EXCEPT !.monitors = m.monitors, !.scheduler = "created",
                            !.jobs = {MonitorOrder[i] : i \in DOMAIN MonitorOrder}],
           raised |-> FALSE]

\* AssistantDaemon.run_all_monitors_once: _run_monitor(name) for every
\* registered monitor, each under its own "except Exception"; the gather
\* is awaited, so every check has completed when it returns
run_all_monitors_once(d) ==
  [d EXCEPT !.round = d.monitors,
            !.events = @ \o SelectIn(MonitorOrder, d.monitors)]

\* variant of start without the "if self.running: return" guard
start_unguarded(d, connectFails) ==
  LET i == initialize(d, connectFails)
  IN IF i.raised THEN i
     ELSE [d |-> [run_all_monitors_once(i.d) EXCEPT
                    !.scheduler = "running",
                    !.events = @ \o <<"scheduler.start">>,
                    !.running = TRUE],
           raised |-> FALSE]

\* AssistantDaemon.start
start(d, connectFails) ==
  IF d.running THEN [d |-> d, raised |-> FALSE]
  ELSE LET i == initialize(d, connectFails)
       IN IF i.raised THEN i
          ELSE [d |-> [run_all_monitors_once(i.d) EXCEPT
                         !.scheduler = "running",
                         !.events = @ \o <<"scheduler.start">>,
                         !.running = TRUE],
                raised |-> FALSE]

\* the steps of stop() on the object, in order: each is under "if self.x:"
StopSteps(d) ==
  (IF d.scheduler # "none" THEN <<"scheduler.shutdown">> ELSE <<>>)
    \o (IF d.client # "none" THEN <<"skynerd_client.close">> ELSE <<>>)
    \o (IF d.ollama # "none" THEN <<"ollama_client.close">> ELSE <<>>)
    \o (IF d.store # "none" THEN <<"state.close">> ELSE <<>>)

\* the effect of one step of stop()
StopStep(d, step) ==
  [d EXCEPT !.scheduler = IF step = "scheduler.shutdown" THEN "shutdown" ELSE @,
            !.client = IF step = "skynerd_client.close" THEN "closed" ELSE @,
            !.ollama = IF step = "ollama_client.close" THEN "closed" ELSE @,
            !.store = IF step = "state.close" THEN "closed" ELSE @,
            !.events = Append(@, step)]

RECURSIVE StopFrom(_, _, _, _)
\* the steps from the k-th on; the failAt-th raises (0: none), and nothing
\* in stop() catches it
StopFrom(d, steps, k, failAt) ==
  IF k > Len(steps) THEN [d |-> [d EXCEPT !.running = FALSE], raised |-> FALSE]
  ELSE IF k = failAt THEN [d |-> d, raised |-> TRUE]
  ELSE StopFrom(StopStep(d, steps[k]), steps, k + 1, failAt)

\* AssistantDaemon.stop
stop(d, failAt) ==
  IF ~d.running THEN [d |-> d, raised |-> FALSE]
  ELSE StopFrom(d, StopSteps(d), 1, failAt)

\* AssistantDaemon.run_forever and _shutdown.  how: what ends the loop,
\* "SIGTERM" / "SIGINT" (the handler sets running to False) or "cancel"
\* (CancelledError in the sleep); then "finally: await self.stop()"
run_forever(d, connectFails, how, failAt) ==
  LET s == start(d, connectFails)
      looped == IF how = "cancel" THEN s.d ELSE [s.d EXCEPT !.running = FALSE]
  IN IF s.raised THEN s ELSE stop(looped, failAt)

\* ------------------------------------------------------------ the state
VARIABLES
  unit,              \* what the behaviour follows: a monitor, or the store
  hasCallback,       \* the monitor was built with on_notification / on_speak
  session_state,     \* table session_state: key -> JSON text of the value
  sync_state,        \* table sync_state: key -> value
  notification_log,  \* table notification_log, in id order
  local_reminders,   \* table local_reminders, in id order
  now,               \* the clock, [day, minute]
  daemon,            \* the AssistantDaemon object
  starts,            \* the start() calls begun one by one, each with its position
  env,               \* the server's pending voice notifications, and what the cycles so far did
  last,              \* record of the last operation, for the properties
  hist               \* what the properties remember across operations

vars == <<unit, hasCallback, session_state, sync_state, notification_log,
          local_reminders, now, daemon, starts, env, last, hist>>

MonitorNames == {"email", "tasks", "calendar", "reminders", "voice"}

\* the reminder monitor is followed twice: with the server's list varying
\* ("reminders") and with the local reminders varying ("local")
MonitorUnits == MonitorNames \cup {"local"}

Units == MonitorUnits \cup {"store", "daemon"}

\* ----------------------------------------------- the server's answers
\* lists in which at most one item is repeated
FewRepeats(S) == {s \in S : Cardinality(Range(s)) >= Len(s) - 1}

\* total_count as the server reports it: two values, so that it can change
\* from one cycle to the next
TotalCounts == {0, 1}

EmailResponses ==
  [emails : FewRepeats(SortedSeqs(NumIds, NumIds)), total : TotalCounts]

\* task kinds 1, 2, 3, 4, ...: id 1 overdue, id 1 due today, id 2 overdue, ...
TaskItem(k) == [id |-> (k + 1) \div 2, is_overdue |-> (k % 2 = 1)]

TaskResponses ==
  {[tasks |-> [i \in DOMAIN s |-> TaskItem(s[i])], total |-> Len(s)] :
     s \in {q \in SortedSeqs(2 * NumIds, NumIds) :
              \A i \in 1..(Len(q) - 1) : TaskItem(q[i]).id < TaskItem(q[i + 1]).id}}

EventIds == {"evA", "evB", Null}
MinutesUntil == {-1, 0, 1, 9, 10, 14, 15, 16}
NoEvent == [present |-> FALSE, id |-> Null, start |-> "none", minutes |-> 0]

CalendarResponses ==
  {NoEvent}
  \cup [present : {TRUE}, id : EventIds, start : {"none", "bad"}, minutes : {0}]
  \cup [present : {TRUE}, id : EventIds, start : {"ok"}, minutes : MinutesUntil]

ReminderResponses == SortedSeqs(NumSmallIds, MaxSmallResp)
LocalUnitResponses == SortedSeqs(1, 1)

\* voice kinds 1, 2, 3, 4, ...: id 1 with spoken_message, id 1 with only
\* full_message, id 1 with neither, id 2 with spoken_message, ...
VoiceIds == {1, 2}

VoiceItem(k) ==
  [id |-> (k + 2) \div 3,
   spoken_message |-> IF k % 3 = 1 THEN "spoken" ELSE "",
   full_message |-> IF k % 3 = 0 THEN "" ELSE "full"]

VoiceResponses ==
  {[i \in DOMAIN s |-> VoiceItem(s[i])] :
     s \in SortedSeqs(3 * Cardinality(VoiceIds), Cardinality(VoiceIds))}

Responses(u) ==
  CASE u = "email" -> EmailResponses
    [] u = "tasks" -> TaskResponses
    [] u = "calendar" -> CalendarResponses
    [] u = "reminders" -> ReminderResponses
    [] u = "local" -> LocalUnitResponses
    [] u = "voice" -> VoiceResponses

\* the identity keys of the items in an answer (for the calendar, the answer)
Seen(u, resp) ==
  CASE u = "email" -> Range(resp.emails)
    [] u = "tasks" -> {Str(resp.tasks[i].id) : i \in {j \in DOMAIN resp.tasks : resp.tasks[j].is_overdue}}
    [] u = "calendar" -> resp
    [] u = "voice" -> {Str(resp[i].id) : i \in DOMAIN resp}
    [] OTHER -> {Str(resp[i]) : i \in DOMAIN resp}

Days == 0..MaxDay
Minutes == {0, 1}
Times == [day : Days, minute : Minutes]

\* a later than b
Later(a, b) == a.day > b.day \/ (a.day = b.day /\ a.minute > b.minute)

\* ------------------------------------------------------------- check()
\* monitor.check() of the unit's monitor
RunCheck(u, c, resp, failAt, cb, t) ==
  CASE u = "email" -> EmailMonitor_check(c, resp, failAt, cb)
    [] u = "tasks" -> TaskMonitor_check(c, resp, failAt, cb)
    [] u = "calendar" -> CalendarMonitor_check(c, resp, failAt, cb)
    [] u \in {"reminders", "local"} -> ReminderMonitor_check(c, resp, failAt, cb, t)
    [] u = "voice" -> VoiceMonitor_check(c, resp, failAt, cb)

\* the monitor class of a unit (its name attribute)
MonitorName(u) == IF u = "local" THEN "reminders" ELSE u

\* BaseMonitor.run: check(), then set_last_sync(self.name), both under one
\* "except Exception" that turns an exception into {"error": ...}.
\* set_last_sync is the call after the last call of check(); sync: the
\* table sync_state.
BaseMonitor_run(u, c, sync, resp, failAt, cb, t) ==
  LET r == RunCheck(u, c, resp, failAt, cb, t)
  IN IF r.kind = "raised" \/ failAt = r.ctx.calls + 1
     THEN [kind |-> "error", summary |-> <<>>, ctx |-> r.ctx, sync |-> sync]
     ELSE [kind |-> r.kind, summary |-> r.summary, ctx |-> r.ctx,
           sync |-> set_last_sync(sync, MonitorName(u), t)]

\* AssistantDaemon._run_monitor: await monitor.check() under "except
\* Exception"; the table sync_state is not touched
run_monitor(u, c, sync, resp, failAt, cb, t) ==
  LET r == RunCheck(u, c, resp, failAt, cb, t)
  IN [kind |-> r.kind, summary |-> r.summary, ctx |-> r.ctx, sync |-> sync]

\* SkyNerdClient._request: "if not self._client: raise RuntimeError("Client
\* not connected ...")"; _client is set by connect() only
Connected(d) == d.client = "connected"

\* variant of the lookup of _run_monitor that finds a monitor for every name
Registered_any(d, name) == name \in MonitorNames

\* self.monitors.get(monitor_name) finds a monitor
Registered(d, name) == name \in d.monitors

\* AssistantDaemon._run_monitor(monitor_name) on the daemon object d: the
\* lookup, "if not monitor: return", then await monitor.check() under
\* "except Exception".  The first call of every check() is a request of the
\* client, which raises at once when the client is not connected.
\*   checks  the monitors whose check() was invoked, in order
\*   raised  an exception left _run_monitor
AssistantDaemon_run_monitor(d, name, c, resp, failAt, cb, t) ==
  IF ~Registered(d, name)
  THEN [checks |-> <<>>, kind |-> "none", raised |-> FALSE, ctx |-> c]
  ELSE LET r == RunCheck(name, c, resp, IF Connected(d) THEN failAt ELSE 1, cb, t)
       IN [checks |-> <<name>>, kind |-> r.kind, raised |-> FALSE,
           ctx |-> IF Connected(d) THEN r.ctx
                   ELSE [r.ctx EXCEPT !.fault = "not connected"]]

NoLast ==
  [op |-> "none", kind |-> "none", summary |-> <<>>, excepted |-> FALSE,
   unsent |-> 0, afterRestart |-> FALSE,
   attempted |-> <<>>, delivered |-> <<>>, marked |-> <<>>,
   seen |-> {}, again |-> FALSE, arg |-> <<>>]

Op(name) == [NoLast EXCEPT !.op = name]

NoFailed == [items |-> {}, resp |-> <<>>]

\* nothing written yet through set_session_value / set_sync_state
NoWritten == [session |-> <<>>, sync |-> <<>>]

\* the record of the cycles of a behaviour, and the server's side of the
\* voice notifications
\*   pending    the voice notifications the server has not been told of as
\*              delivered, in the order it returns them
\*   fetched    the ids in the answers of the cycles that got past the fetch
\*   stored     the ids in the answers of the cycles that wrote the snapshot
\*   attempted  the items notify() was called for
\*   delivered  the items for which notify() returned
NoEnv ==
  [pending |-> <<>>, fetched |-> {}, stored |-> {}, attempted |-> {},
   delivered |-> {}]

NoHist ==
  [failed |-> NoFailed, spokenIds |-> {}, logfailIds |-> {}, atRestart |-> <<>>,
   notifiedLocal |-> {}, written |-> NoWritten]

Init ==
  /\ unit \in Units
  /\ hasCallback \in (IF unit \in MonitorUnits THEN BOOLEAN ELSE {FALSE})
  /\ session_state = <<>>
  /\ sync_state = <<>>
  /\ notification_log = <<>>
  /\ local_reminders = <<>>
  /\ now = [day |-> 0, minute |-> 0]
  /\ daemon \in (IF unit = "daemon" THEN {NewDaemon(e) : e \in BOOLEAN}
                 ELSE {NewDaemon(FALSE)})
  /\ last = NoLast
  /\ hist = NoHist
  /\ starts = <<>>
  /\ env = NoEnv

\* the item ids whose callback raised in an invocation
FailedItems(c) ==
  {c.attempted[i] : i \in (DOMAIN c.attempted) \ (DOMAIN c.delivered)}

\* one run of the unit's check(): the server's answer and the I/O call that
\* raises (if any) are the inputs
Invocation(viaRun) ==
  /\ unit \in MonitorUnits
  /\ \E resp \in Responses(unit) :
       LET c0 == NewCtx(session_state, notification_log, local_reminders)
       IN \E r0 \in {RunCheck(unit, c0, resp, 0, hasCallback, now).ctx} :
            \E failAt \in 0..(r0.calls + IF viaRun THEN 1 ELSE 0) :
            \E r \in {IF viaRun
                      THEN BaseMonitor_run(unit, c0, sync_state, resp, failAt,
                                           hasCallback, now)
                      ELSE run_monitor(unit, c0, sync_state, resp, failAt,
                                       hasCallback, now)} :
            \E c \in {r.ctx} :
               /\ session_state' = c.session
               /\ sync_state' = r.sync
               /\ notification_log' = c.log
               /\ local_reminders' = c.rows
               /\ last' = [op |-> IF viaRun THEN "run" ELSE "check", kind |-> r.kind, summary |-> r.summary,
                           excepted |-> c.raised,
                           unsent |-> IF FailedItems(c) = {} THEN 0
                                      ELSE Len(r0.attempted) - Len(c.attempted),
                           afterRestart |-> (last.op \in {"restart", "crash"}),
                           attempted |-> c.attempted, delivered |-> c.delivered,
                           marked |-> c.marked, seen |-> Seen(unit, resp),
                           again |-> (hist.failed.resp = <<resp>>),
                           arg |-> <<>>]
               /\ hist' = [failed |-> IF FailedItems(c) = {} THEN NoFailed
                                      ELSE [items |-> FailedItems(c), resp |-> <<resp>>],
                           spokenIds |-> IF unit = "voice"
                                         THEN hist.spokenIds \cup Range(c.delivered)
                                         ELSE {},
                           logfailIds |-> hist.logfailIds \cup Range(c.logfail),
                           atRestart |-> <<>>,
                           notifiedLocal |-> IF unit = "local"
                                             THEN hist.notifiedLocal \cup Range(c.attempted)
                                             ELSE {},
                           written |-> hist.written]
  /\ UNCHANGED <<unit, starts, env, hasCallback, now, daemon>>

\* the daemon runs the unit's monitor: _run_monitor -> check()
Check == Invocation(FALSE)

\* BaseMonitor.run() of the unit's monitor
Run == Invocation(TRUE)

\* the process ends and is started again: nothing in memory survives; the
\* store is opened again (StateDB.connect runs _init_schema)
Restart ==
  /\ unit \in MonitorUnits
  /\ last.op # "restart"
  /\ LET t == init_schema([session |-> session_state, log |-> notification_log,
                           rows |-> local_reminders])
     IN /\ session_state' = t.session
        /\ notification_log' = t.log
        /\ local_reminders' = t.rows
  /\ last' = Op("restart")
  /\ hist' = [NoHist EXCEPT !.atRestart = <<session_state>>,
                            !.notifiedLocal = hist.notifiedLocal]
  /\ UNCHANGED <<unit, starts, env, hasCallback, sync_state, now, daemon>>

\* StateDB.add_local_reminder(title, due_at)
AddLocalReminder ==
  /\ unit \in {"local", "rows"}
  /\ Len(local_reminders) < (IF unit = "rows" THEN MaxStoreLocal ELSE MaxLocal)
  /\ \E due_at \in Times : local_reminders' = add_local_reminder(local_reminders, due_at)
  /\ last' = Op("add_local_reminder")
  /\ hist' = [hist EXCEPT !.atRestart = <<>>]
  /\ UNCHANGED <<unit, starts, env, hasCallback, sync_state, session_state, notification_log, now, daemon>>

\* time passes
Tick ==
  /\ unit \in {"local", "rows"}
  /\ \E t \in Times : Later(t, now) /\ now' = t
  /\ last' = Op("tick")
  /\ hist' = [hist EXCEPT !.atRestart = <<>>]
  /\ UNCHANGED <<unit, starts, env, hasCallback, sync_state, session_state, notification_log, local_reminders, daemon>>

\* the arguments of a direct call of log_notification
LogIds == {Str(i) : i \in 1..NumSmallIds}
LogMessages == {"a", "b"}

\* StateDB.log_notification(notification_id, ..., message, spoken) called on
\* the store; fault: the statement fails for another reason than the
\* constraint (the exception leaves log_notification)
StoreLogNotification ==
  /\ unit \in {"store", "log"}
  /\ \E nid \in LogIds, message \in LogMessages, spoken \in BOOLEAN, fault \in BOOLEAN :
       \E r \in {log_notification(notification_log,
                    [notification_id |-> nid, notification_type |-> "", title |-> "",
                     message |-> message, spoken |-> spoken])} :
         /\ notification_log' = IF fault THEN notification_log ELSE r.log
         /\ last' = [Op("log_notification") EXCEPT
                       !.kind = IF fault \/ r.raised THEN "raised" ELSE "returned",
                       !.arg = <<nid, message, spoken, fault>>]
  /\ UNCHANGED <<unit, starts, env, hasCallback, sync_state, session_state, local_reminders, now, daemon, hist>>

\* a public call on the daemon starts with an empty record of events
Called(d) == [d EXCEPT !.events = <<>>]

\* AssistantDaemon.start()
DaemonStart ==
  /\ unit = "daemon"
  /\ \E connectFails \in BOOLEAN :
       \E r \in {start(Called(daemon), connectFails)} :
         /\ daemon' = r.d
         /\ last' = [Op("start") EXCEPT !.kind = IF r.raised THEN "raised" ELSE "returned",
                                        !.arg = <<connectFails>>]
  /\ UNCHANGED <<unit, starts, env, hasCallback, sync_state, session_state, notification_log, local_reminders,
                 now, hist>>

\* AssistantDaemon.stop(); failAt: the step of it that raises (0: none)
DaemonStop ==
  /\ unit = "daemon"
  /\ \E failAt \in 0..(IF daemon.running THEN Len(StopSteps(daemon)) ELSE 0) :
       \E r \in {stop(Called(daemon), failAt)} :
         /\ daemon' = r.d
         /\ last' = [Op("stop") EXCEPT !.kind = IF r.raised THEN "raised" ELSE "returned",
                                       !.arg = <<failAt>>]
  /\ UNCHANGED <<unit, starts, env, hasCallback, sync_state, session_state, notification_log, local_reminders,
                 now, hist>>

\* what ends the loop of run_forever
LoopEnds == {"SIGTERM", "SIGINT", "cancel"}

\* AssistantDaemon.run_forever() until a signal or a cancellation ends it;
\* failAt: the step of the final stop() that raises (0: none)
DaemonRunForever ==
  /\ unit = "daemon"
  /\ \E how \in LoopEnds, connectFails \in BOOLEAN :
       \E s \in {start(Called(daemon), connectFails)} :
         \E failAt \in 0..(IF s.raised \/ how # "cancel" THEN 0
                           ELSE Len(StopSteps(s.d))) :
           \E r \in {run_forever(Called(daemon), connectFails, how, failAt)} :
             /\ daemon' = r.d
             /\ last' = [Op("run_forever") EXCEPT
                           !.kind = IF r.raised THEN "raised" ELSE "returned",
                           !.arg = <<how, connectFails, failAt>>]
  /\ UNCHANGED <<unit, starts, env, hasCallback, sync_state, session_state, notification_log, local_reminders,
                 now, hist>>

Next ==
  \/ Check
  \/ Restart
  \/ AddLocalReminder
  \/ Tick
  \/ StoreLogNotification
  \/ DaemonStart
  \/ DaemonStop
  \/ DaemonRunForever

Spec == Init /\ [][Next]_vars

\* ---- the daemon's lifecycle methods as functions of the daemon object ----

\* the object a completed start() is written to leave behind: start() sets
\* running only after initialize(), the initial round and scheduler.start()
Started(ollama_enabled) ==
  [NewDaemon(ollama_enabled) EXCEPT
     !.running = TRUE, !.store = "open", !.client = "constructed",
     !.ollama = IF ollama_enabled THEN "constructed" ELSE "none",
     !.monitors = MonitorNames, !.scheduler = "running",
     !.jobs = MonitorNames, !.round = MonitorNames]

\* the daemon objects the lifecycle methods are applied to
DaemonObjects ==
  {NewDaemon(e) : e \in BOOLEAN} \cup {Started(e) : e \in BOOLEAN}

InitDaemon ==
  /\ unit = "daemon"
  /\ hasCallback = FALSE
  /\ session_state = <<>>
  /\ sync_state = <<>>
  /\ notification_log = <<>>
  /\ local_reminders = <<>>
  /\ now = [day |-> 0, minute |-> 0]
  /\ daemon \in DaemonObjects
  /\ last = NoLast
  /\ hist = NoHist
  /\ starts = <<>>
  /\ env = NoEnv

NextDaemon ==
  \/ DaemonStart
  \/ DaemonStop
  \/ DaemonRunForever

SpecDaemon == InitDaemon /\ [][NextDaemon]_vars

\* ---- the monitors run through BaseMonitor.run and through the daemon ----
NextRun ==
  \/ Run
  \/ Check

\* the monitors followed here: run() is inherited unchanged by every monitor
RunUnits == {"calendar", "reminders"}

InitRun == Init /\ unit \in RunUnits

SpecRun == InitRun /\ [][NextRun]_vars

\* ---- the methods of StateDB called directly on the store ----

\* what a behaviour of the store follows: the two key-value tables, the
\* local reminders, the notification log
StoreUnits == {"kv", "rows", "log"}

\* the keys and the JSON values (lists) of the direct calls
StoreKeys == {"k1", "k2"}
JsonLists == {<<>>, <<1>>, <<1, 2>>}
SyncTexts == {IsoFormat(t) : t \in Times}

\* the function f with f[key] = value
Written(f, key, value) ==
  [k \in DOMAIN f \cup {key} |-> IF k = key THEN value ELSE f[k]]

\* StateDB.set_session_value(key, value)
StoreSetSessionValue ==
  /\ unit = "kv"
  /\ \E key \in StoreKeys, value \in JsonLists :
       /\ session_state' = set_session_value(session_state, key, value)
       /\ last' = [Op("set_session_value") EXCEPT
                     !.arg = <<key, key \in DOMAIN hist.written.session
                                    /\ hist.written.session[key] # value>>]
       /\ hist' = [hist EXCEPT !.written.session = Written(@, key, value)]
  /\ UNCHANGED <<unit, starts, env, hasCallback, sync_state, notification_log, local_reminders,
                 now, daemon>>

\* StateDB.set_sync_state(key, value)
StoreSetSyncState ==
  /\ unit = "kv"
  /\ \E key \in StoreKeys, value \in SyncTexts :
       /\ sync_state' = set_sync_state(sync_state, key, value)
       /\ last' = [Op("set_sync_state") EXCEPT
                     !.arg = <<key, key \in DOMAIN hist.written.sync
                                    /\ hist.written.sync[key] # value>>]
       /\ hist' = [hist EXCEPT !.written.sync = Written(@, key, value)]
  /\ UNCHANGED <<unit, starts, env, hasCallback, session_state, notification_log, local_reminders,
                 now, daemon>>

\* the reminder ids of the direct calls: those of the rows and one more
ReminderIds == 1..(MaxStoreLocal + 1)

\* StateDB.mark_reminder_notified(reminder_id)
StoreMarkNotified ==
  /\ unit = "rows"
  /\ \E rid \in ReminderIds :
       /\ local_reminders' = mark_reminder_notified(local_reminders, rid)
       /\ last' = [Op("mark_reminder_notified") EXCEPT !.arg = <<rid>>]
  /\ UNCHANGED <<unit, starts, env, hasCallback, sync_state, session_state, notification_log,
                 now, daemon, hist>>

\* StateDB.mark_reminder_complete(reminder_id)
StoreMarkComplete ==
  /\ unit = "rows"
  /\ \E rid \in ReminderIds :
       /\ local_reminders' = mark_reminder_complete(local_reminders, rid)
       /\ last' = [Op("mark_reminder_complete") EXCEPT !.arg = <<rid>>]
  /\ UNCHANGED <<unit, starts, env, hasCallback, sync_state, session_state, notification_log,
                 now, daemon, hist>>

InitStore ==
  /\ unit \in StoreUnits
  /\ hasCallback = FALSE
  /\ session_state = <<>>
  /\ sync_state = <<>>
  /\ notification_log = <<>>
  /\ local_reminders = <<>>
  /\ now = [day |-> 0, minute |-> 0]
  /\ daemon = NewDaemon(FALSE)
  /\ last = NoLast
  /\ hist = NoHist
  /\ starts = <<>>
  /\ env = NoEnv

NextStore ==
  \/ StoreSetSessionValue
  \/ StoreSetSyncState
  \/ AddLocalReminder
  \/ StoreMarkNotified
  \/ StoreMarkComplete
  \/ Tick
  \/ StoreLogNotification

SpecStore == InitStore /\ [][NextStore]_vars

\* ---- the voice monitor in a process that can die ----

\* the process dies in a VoiceMonitor.check() at its k-th I/O call: the
\* calls before it have taken effect, nothing after it runs, no handler
\* runs; then the process is started again (StateDB.connect)
Crash ==
  /\ unit = "voice"
  /\ \E resp \in VoiceResponses :
       LET c0 == NewCtx(session_state, notification_log, local_reminders)
       IN \E r0 \in {VoiceMonitor_check(c0, resp, 0, hasCallback).ctx} :
            \E k \in 1..r0.calls :
            \E c \in {VoiceMonitor_check([c0 EXCEPT !.crashing = TRUE], resp, k,
                                          hasCallback).ctx} :
            \E t \in {init_schema([session |-> c.session, log |-> c.log,
                                    rows |-> c.rows])} :
               /\ session_state' = t.session
               /\ notification_log' = t.log
               /\ local_reminders' = t.rows
               /\ last' = [Op("crash") EXCEPT !.attempted = c.attempted,
                                              !.delivered = c.delivered,
                                              !.marked = c.marked,
                                              !.seen = Seen(unit, resp)]
               /\ hist' = [NoHist EXCEPT
                             !.spokenIds = hist.spokenIds \cup Range(c.delivered),
                             !.logfailIds = hist.logfailIds \cup Range(c.logfail)]
  /\ UNCHANGED <<unit, starts, env, hasCallback, sync_state, now, daemon>>

InitCrash == Init /\ unit = "voice"

NextCrash ==
  \/ Check
  \/ Crash

SpecCrash == InitCrash /\ [][NextCrash]_vars

\* ---- checks of different monitors interleaved on one store ----

\* the answers of the interleaved checks: at most one item, of id 1
MixResponses(u) ==
  CASE u = "email" -> {[emails |-> e, total |-> 1] : e \in {<<>>, <<1>>}}
    [] u = "tasks" -> {r \in TaskResponses :
                         Len(r.tasks) <= 1 /\ \A i \in DOMAIN r.tasks : r.tasks[i].id = 1}
    [] u = "calendar" -> {NoEvent}
                           \cup [present : {TRUE}, id : {"evA"}, start : {"ok"},
                                 minutes : {10, 16}]
    [] u = "reminders" -> {<<>>, <<1>>}
    [] u = "voice" -> {<<>>, <<VoiceItem(1)>>}

\* the scheduler runs the job of one of the monitors: _run_monitor(u)
MixCheck ==
  /\ unit = "mix"
  /\ \E u \in MonitorNames :
       \E resp \in MixResponses(u) :
         LET c0 == NewCtx(session_state, notification_log, local_reminders)
         IN \E r0 \in {RunCheck(u, c0, resp, 0, hasCallback, now).ctx} :
              \E failAt \in 0..r0.calls :
              \E c \in {RunCheck(u, c0, resp, failAt, hasCallback, now).ctx} :
                 /\ session_state' = c.session
                 /\ notification_log' = c.log
                 /\ local_reminders' = c.rows
                 /\ last' = [Op("check") EXCEPT !.arg = <<u>>]
  /\ UNCHANGED <<unit, starts, env, hasCallback, sync_state, now, daemon, hist>>

\* the store holds no local reminder or one, due the day before or not yet
InitMix ==
  /\ unit = "mix"
  /\ hasCallback \in BOOLEAN
  /\ session_state = <<>>
  /\ sync_state = <<>>
  /\ notification_log = <<>>
  /\ local_reminders \in {<<>>, add_local_reminder(<<>>, [day |-> 0, minute |-> 0])}
  /\ now \in {[day |-> 0, minute |-> 0], [day |-> 1, minute |-> 0]}
  /\ daemon = NewDaemon(FALSE)
  /\ last = NoLast
  /\ hist = NoHist
  /\ starts = <<>>
  /\ env = NoEnv

NextMix == MixCheck

SpecMix == InitMix /\ [][NextMix]_vars

\* ---- the scheduler's triggers on the daemon object ----

\* the names _run_monitor is called with: the five of the jobs and another
TriggerNames == MonitorNames \cup {"other"}

\* AssistantDaemon._run_monitor(name), from a job or called directly
DaemonRunMonitor ==
  /\ unit = "daemon"
  /\ \E name \in TriggerNames :
       \E resp \in (IF name \in MonitorNames THEN MixResponses(name) ELSE {<<>>}) :
         LET c0 == NewCtx(session_state, notification_log, local_reminders)
         IN \E r \in {AssistantDaemon_run_monitor(daemon, name, c0, resp, 0,
                                                  hasCallback, now)} :
              /\ session_state' = r.ctx.session
              /\ notification_log' = r.ctx.log
              /\ local_reminders' = r.ctx.rows
              /\ daemon' = [daemon EXCEPT !.events = r.checks]
              /\ last' = [Op("_run_monitor") EXCEPT
                            !.kind = IF r.raised THEN "raised" ELSE "returned",
                            !.excepted = r.ctx.raised,
                            !.attempted = r.ctx.attempted,
                            !.arg = <<name, r.kind, r.ctx.fault>>]
  /\ UNCHANGED <<unit, starts, env, hasCallback, sync_state, now, hist>>

InitTrigger == InitDaemon

NextTrigger ==
  \/ DaemonStart
  \/ DaemonStop
  \/ DaemonRunForever
  \/ DaemonRunMonitor

SpecTrigger == InitTrigger /\ [][NextTrigger]_vars

\* ---- start() calls that overlap on one daemon object ----
\* A call runs from its beginning to "await self.state.connect()", where the
\* event loop may run another task, and from there to its end.
\*   pc    "connecting" (suspended in state.connect()), "returned", "raised"
\*   conn  the StateDB the call created: "none", "created", "open", "failed"
\*   during  the calls that were suspended when this one began

\* self.state after the calls: the StateDB created last
LatestStore(calls, d) ==
  LET made == {i \in DOMAIN calls : calls[i].conn # "none"}
  IN IF made = {} THEN d.store
     ELSE LET i == CHOOSE j \in made : \A k \in made : k <= j
          IN IF calls[i].conn = "open" THEN "open" ELSE "unconnected"

\* start() up to its first suspension: the guard, then initialize() up to
\* "self.state = StateDB(...); await self.state.connect()"
StartBegin ==
  /\ unit = "daemon"
  /\ Len(starts) < MaxStarts
  /\ \E call \in {[pc |-> IF daemon.running THEN "returned" ELSE "connecting",
                    conn |-> IF daemon.running THEN "none" ELSE "created",
                    during |-> {k \in DOMAIN starts : starts[k].pc = "connecting"}]} :
       /\ starts' = Append(starts, call)
       /\ daemon' = [Called(daemon) EXCEPT !.store = LatestStore(starts', daemon)]
       /\ last' = [Op("start") EXCEPT !.kind = call.pc, !.arg = <<Len(starts')>>]
  /\ UNCHANGED <<unit, env, hasCallback, sync_state, session_state, notification_log,
                 local_reminders, now, hist>>

\* a suspended start() goes on: connect() returns or raises, then the rest of
\* initialize(), the initial round and scheduler.start()
StartResume ==
  /\ unit = "daemon"
  /\ \E i \in DOMAIN starts, connectFails \in BOOLEAN :
       /\ starts[i].pc = "connecting"
       /\ \E r \in {start_unguarded(daemon, connectFails)} :
            /\ starts' = [starts EXCEPT
                            ![i] = [@ EXCEPT
                                      !.pc = IF r.raised THEN "raised" ELSE "returned",
                                      !.conn = IF connectFails THEN "failed" ELSE "open"]]
            /\ daemon' = [r.d EXCEPT !.store = LatestStore(starts', daemon)]
            /\ last' = [Op("start") EXCEPT
                          !.kind = IF r.raised THEN "raised" ELSE "returned",
                          !.arg = <<i, connectFails>>]
  /\ UNCHANGED <<unit, env, hasCallback, sync_state, session_state, notification_log,
                 local_reminders, now, hist>>

InitOverlap == InitDaemon

NextOverlap ==
  \/ StartBegin
  \/ StartResume
  \/ DaemonStop
  \/ DaemonRunMonitor

SpecOverlap == InitOverlap /\ [][NextOverlap]_vars

\* ---- the cycles of one monitor, with the record of all of them ----
CycleUnits == {"email", "tasks", "calendar", "reminders"}

\* the number of the call of check() that writes the snapshot of the ids
\* (reminders: fetch, get "reminder_notified_ids", set; tasks likewise;
\* email: fetch, two gets, set of the count, set of the ids)
SnapshotCall(u) == IF u = "email" THEN 5 ELSE 3

\* the check got past its k-th call
Past(c, k) == c.calls > k \/ (c.calls = k /\ ~c.raised)

\* the answers of the cycles: for email and tasks those without a repeated
\* id, with one total_count
CycleResponses(u) ==
  CASE u = "email" -> {r \in EmailResponses :
                         r.total = 0 /\ Cardinality(Range(r.emails)) = Len(r.emails)}
    [] u = "tasks" -> {r \in TaskResponses : r.total = Len(r.tasks)}
    [] OTHER -> Responses(u)

\* one cycle of the unit's monitor; env keeps, of all cycles, the ids
\* fetched and stored (server reminders) and the items notified
Cycle ==
  /\ unit \in CycleUnits
  /\ \E resp \in CycleResponses(unit) :
       LET c0 == NewCtx(session_state, notification_log, local_reminders)
       IN \E r0 \in {RunCheck(unit, c0, resp, 0, hasCallback, now).ctx} :
            \E failAt \in 0..r0.calls :
            \E r \in {RunCheck(unit, c0, resp, failAt, hasCallback, now)} :
            \E c \in {r.ctx} :
               /\ session_state' = c.session
               /\ notification_log' = c.log
               /\ local_reminders' = c.rows
               /\ env' = [env EXCEPT
                            !.fetched = IF unit = "reminders" /\ Past(c, 1)
                                        THEN @ \cup Seen(unit, resp) ELSE @,
                            !.stored = IF unit = "reminders" /\ Past(c, SnapshotCall(unit))
                                       THEN @ \cup Seen(unit, resp) ELSE @,
                            !.attempted = IF unit # "calendar"
                                          THEN @ \cup Range(c.attempted) ELSE @,
                            !.delivered = IF unit = "calendar"
                                          THEN @ \cup Range(c.delivered) ELSE @]
               /\ last' = [Op("cycle") EXCEPT !.kind = r.kind,
                                              !.seen = IF unit = "reminders"
                                                       THEN Seen(unit, resp) ELSE @,
                                              !.delivered = IF unit = "calendar"
                                                            THEN c.delivered ELSE @]
  /\ UNCHANGED <<unit, hasCallback, sync_state, now, daemon, starts, hist>>

InitCycles == Init /\ unit \in CycleUnits

NextCycles ==
  \/ Cycle
  \/ Restart

SpecCycles == InitCycles /\ [][NextCycles]_vars

\* ---- the voice monitor with the server's pending notifications ----

\* what the server holds as pending: notifications with different ids
PendingLists ==
  {p \in VoiceResponses : Cardinality({p[i].id : i \in DOMAIN p}) = Len(p)}

\* get_pending_voice_notifications(limit=5): the first five of the pending
PendingLimit == 5

\* the pending notifications without those marked as delivered
StillPending(pending, marked) ==
  SelectSeq(pending, LAMBDA n : Str(n.id) \notin Range(marked))

\* the scheduler's count of runs of the voice job, modulo 2: a run of the
\* job is a step of the daemon also when it leaves everything else as it was
Runs(l) == IF l.op = "cycle" THEN l.arg[2] ELSE 0

\* one VoiceMonitor.check() on the server's pending notifications; a call
\* may raise only when mayFail.  The server drops what
\* mark_voice_notification_delivered was called for.
VoiceCycleWith(mayFail) ==
  /\ unit = "voice"
  /\ LET resp == Take(env.pending, PendingLimit)
         c0 == NewCtx(session_state, notification_log, local_reminders)
         r0 == RunCheck(unit, c0, resp, 0, hasCallback, now).ctx
     IN \E failAt \in IF mayFail THEN 0..r0.calls ELSE {0} :
          LET r == RunCheck(unit, c0, resp, failAt, hasCallback, now)
          IN /\ session_state' = r.ctx.session
             /\ notification_log' = r.ctx.log
             /\ local_reminders' = r.ctx.rows
             /\ env' = [env EXCEPT !.pending = StillPending(@, r.ctx.marked)]
             /\ last' = [Op("cycle") EXCEPT !.kind = r.kind,
                                            !.arg = <<failAt, 1 - Runs(last)>>]
  /\ UNCHANGED <<unit, hasCallback, sync_state, now, daemon, starts, hist>>

\* a cycle in which any call may raise
VoiceCycle == VoiceCycleWith(TRUE)

\* a cycle in which no call raises
VoiceCycleOk == VoiceCycleWith(FALSE)

InitSettle ==
  /\ Init
  /\ unit = "voice"

\* the server gets its pending notifications
ServerHasPending ==
  /\ unit = "voice"
  /\ last.op = "none"
  /\ \E p \in PendingLists : env' = [env EXCEPT !.pending = p]
  /\ last' = Op("pending")
  /\ UNCHANGED <<unit, hasCallback, sync_state, session_state, notification_log,
                 local_reminders, now, daemon, starts, hist>>

NextSettle ==
  \/ ServerHasPending
  \/ VoiceCycle

\* The scheduler runs the voice job at every interval for as long as the
\* daemon lives, and the calls of a run succeed again and again.
\* VoiceCycleOk is enabled in every state and is never a stuttering step, so
\* its weak fairness, WF_vars(VoiceCycleOk), is []<><<VoiceCycleOk>>_vars.
SpecSettle ==
  /\ InitSettle
  /\ [][NextSettle]_vars
  /\ WF_vars(ServerHasPending)
  /\ []<><<VoiceCycleOk>>_vars



\* ------------------------------------------------------- the properties
\* number of times x occurs in s
Count(s, x) == Cardinality({i \in DOMAIN s : s[i] = x})

\* the step is a run of the unit's check()
IsCheck == last'.op = "check"

C2_LogNotificationIdempotent ==
  [][(last'.op = "log_notification" /\ ~last'.arg[4]) =>
       /\ last'.kind = "returned"
       /\ Cardinality({i \in DOMAIN notification_log' :
                         notification_log'[i].notification_id = last'.arg[1]}) = 1
       /\ (was_notification_delivered(notification_log, last'.arg[1])
             => notification_log' = notification_log)]_vars

\* log_notification returned for an id whose entry holds another message and
\* another spoken flag than the call gave
C2_Witness ==
  /\ last.op = "log_notification"
  /\ last.kind = "returned"
  /\ \E i \in DOMAIN notification_log :
       /\ notification_log[i].notification_id = last.arg[1]
       /\ notification_log[i].message # last.arg[2]
       /\ notification_log[i].spoken # last.arg[3]

\* C3 as stated: a check() that returns {error} leaves every session_state
\* key as it was before the check.
C3_FailedCheckLeavesSessionState ==
  [][(IsCheck /\ last'.kind = "error") => session_state' = session_state]_vars

\* C4 as stated: when the callback raised for an item in one cycle, the next
\* cycle over the same remote state does not notify that item again (email,
\* tasks, server reminders, calendar, local reminders).
C4_NoRenotifyAfterSinkFailure ==
  [][(IsCheck /\ unit \in MonitorUnits \ {"voice"} /\ last'.again) =>
       Range(last'.attempted) \cap hist.failed.items = {}]_vars

\* C5 as stated: when the notification callback raises for an item of a
\* batch, the check still attempts the whole batch and returns its summary,
\* not {error}.
C5_SinkFailureDoesNotBlockBatch ==
  (last.op = "check" /\ Len(last.attempted) > Len(last.delivered)) =>
    /\ last.kind = "summary"
    /\ last.unsent = 0

C7_RoundRunsEveryMonitor ==
  (last.op = "start" /\ last.arg = <<FALSE>>) =>
    /\ {"tasks", "calendar", "reminders", "voice"} \subseteq daemon.round
    /\ daemon.jobs = MonitorNames
    /\ daemon.scheduler = "running"

\* the items of a persisted snapshot
SnapshotItems(session) ==
  Range(SessionListOr(session, "email_high_priority"))
    \cup Range(SessionListOr(session, "task_overdue_ids"))
    \cup Range(SessionListOr(session, "reminder_notified_ids"))
    \cup (IF "calendar_last_notified" \in DOMAIN session
          THEN {get_session_value(session, "calendar_last_notified")} ELSE {})

\* C8: the first check() after a restart notifies no item of the snapshot
\* that was persisted when the process restarted.
C8_RestartDoesNotResurface ==
  [][(IsCheck /\ last.op = "restart") =>
       Range(last'.attempted) \cap SnapshotItems(hist.atRestart[1]) = {}]_vars

\* the first check() after a restart returned its summary; the server's
\* answer held items, and none was notified (all were in the snapshot)
C8_Witness ==
  /\ unit \in {"email", "tasks", "reminders"}
  /\ last.op = "check"
  /\ last.afterRestart
  /\ last.kind = "summary"
  /\ last.seen # {}
  /\ last.attempted = <<>>

\* C9: a calendar check() notifies the next event only if the event starts
\* in m minutes with 0 < m <= 15 and its id differs from
\* calendar_last_notified; a check() that returns its summary has notified
\* the event exactly in that case and has then recorded the id, and
\* otherwise notified nothing and left session_state alone.
C9_CalendarWindow ==
  [][(IsCheck /\ unit = "calendar") =>
       LET ev == last'.seen
           due == /\ ev.present
                  /\ ev.start = "ok"
                  /\ 0 < ev.minutes
                  /\ ev.minutes <= 15
                  /\ ev.id # get_session_value(session_state, "calendar_last_notified")
       IN /\ last'.attempted # <<>> => due
          /\ last'.kind = "summary" =>
               IF due
               THEN /\ last'.attempted = <<ev.id>>
                    /\ get_session_value(session_state', "calendar_last_notified") = ev.id
               ELSE /\ last'.attempted = <<>>
                    /\ session_state' = session_state]_vars

\* the event that was notified is polled again 9 minutes before its start
\* and is not notified
C9_Witness ==
  /\ unit = "calendar"
  /\ last.op = "check"
  /\ last.kind = "summary"
  /\ last.seen.start = "ok"
  /\ last.seen.minutes = 9
  /\ last.seen.id = get_session_value(session_state, "calendar_last_notified")
  /\ last.attempted = <<>>

\* the overdue set persisted by the previous cycle
PrevOverdue == Range(SessionListOr(session_state, "task_overdue_ids"))

MinuteBefore(t) ==
  IF t.minute > 0 THEN [day |-> t.day, minute |-> t.minute - 1]
  ELSE [day |-> t.day - 1, minute |-> 1]

\* C11 as stated: a local reminder that is not completed, not notified and
\* due one minute before the current time is returned by
\* get_due_reminders(); a reminder that a check() (returning its summary)
\* notified has notification_sent set and is not returned any more.
C11_DueReminderIsReturned ==
  \A i \in DOMAIN local_reminders :
    LET r == local_reminders[i]
    IN /\ (/\ ~r.is_completed
           /\ ~r.notification_sent
           /\ r.due_at = IsoFormat(MinuteBefore(now)))
          => r \in Range(get_due_reminders(local_reminders, now))
       /\ (/\ last.op = "check"
           /\ last.kind = "summary"
           /\ LocalItem(r.id) \in Range(last.attempted))
          => /\ r.notification_sent
             /\ r \notin Range(get_due_reminders(local_reminders, now))

\* the ids of the snapshot the previous cycle persisted (email, tasks)
PrevSnapshot ==
  Range(SessionListOr(session_state,
          IF unit = "email" THEN "email_high_priority" ELSE "task_overdue_ids"))

\* C12 as stated: an email or task check() that returns its summary, with n
\* newly seen items, has emitted exactly min(n, 3) notifications and
\* reports n as new_high_priority, resp. new_overdue.
C12_NotificationCap ==
  [][(IsCheck /\ unit \in {"email", "tasks"} /\ last'.kind = "summary") =>
       LET n == Cardinality(last'.seen \ PrevSnapshot)
       IN /\ Len(last'.attempted) = Min(n, 3)
          /\ n = (IF unit = "email" THEN last'.summary.new_high_priority
                  ELSE last'.summary.new_overdue)]_vars

\* the time a stored due_at text stands for is not later than t
DueBy(due_at, t) == ~Later([day |-> due_at[1], minute |-> due_at[3]], t)

\* C13 as stated: notification_sent of a local reminder never changes back
\* to false, is set only for a reminder whose due_at is <= now at the
\* check that sets it, and no local reminder is passed to notify twice over
\* its lifetime (restarts included).
C13_LocalReminderNotifiedOnce ==
  [][/\ \A i \in DOMAIN local_reminders :
          /\ local_reminders[i].notification_sent
               => local_reminders'[i].notification_sent
          /\ (~local_reminders[i].notification_sent
               /\ local_reminders'[i].notification_sent)
               => (IsCheck /\ DueBy(local_reminders[i].due_at, now))
     /\ (IsCheck /\ unit = "local") =>
          \A id \in Range(last'.attempted) :
            /\ Count(last'.attempted, id) = 1
            /\ id \notin hist.notifiedLocal]_vars

\* the daemon has been shut down: what stop() is written to achieve
ShutDown(d) ==
  /\ d.scheduler = "shutdown"
  /\ d.client = "closed"
  /\ d.store = "closed"
  /\ ~d.running

C15_StartBringsUpDaemon ==
  [][(last'.op = "start" /\ last'.arg = <<FALSE>> /\ ~daemon.running) =>
       /\ daemon'.running
       /\ daemon'.monitors = MonitorNames
       /\ \A m \in MonitorNames : Count(daemon'.events, m) = 1
       /\ daemon'.jobs = MonitorNames
       /\ daemon'.scheduler = "running"]_vars

\* position of the first x in s (0: none)
IndexOf(s, x) ==
  IF \E i \in DOMAIN s : s[i] = x
  THEN CHOOSE i \in DOMAIN s : s[i] = x /\ \A j \in 1..(i - 1) : s[j] # x
  ELSE 0

\* C16 as stated: in start() (the store's file accessible) the check() of every monitor is invoked once
\* and has completed before the scheduler is activated.
C16_InitialRoundBeforeScheduler ==
  [][(last'.op = "start" /\ last'.arg = <<FALSE>> /\ ~daemon.running) =>
       /\ IndexOf(daemon'.events, "scheduler.start") > 0
       /\ \A m \in MonitorNames :
            /\ Count(daemon'.events, m) = 1
            /\ IndexOf(daemon'.events, m) < IndexOf(daemon'.events, "scheduler.start")]_vars

SyncedAt(sync, t) ==
  LET key == "last_sync_" \o MonitorName(unit)
  IN key \in DOMAIN sync /\ sync[key] = IsoFormat(t)

\* C20 as stated: last_sync_<monitor> is written only after a successful
\* run: a run() whose check failed leaves the table sync_state unchanged,
\* and a successful run of the monitor by the daemon's scheduler updates it.
C20_LastSyncOnlyAfterSuccess ==
  [][/\ (last'.op = "run" /\ last'.kind = "error") => sync_state' = sync_state
     /\ (last'.op = "check" /\ last'.kind = "summary") => SyncedAt(sync_state', now')]_vars

\* C21: after any sequence of set_session_value / set_sync_state calls, a
\* get for a key returns the value of the most recent set for that key, a
\* key never set returns None, and the tables hold no other rows.
C21_LastWriteWins ==
  /\ DOMAIN session_state = DOMAIN hist.written.session
  /\ DOMAIN sync_state = DOMAIN hist.written.sync
  /\ \A k \in StoreKeys :
       /\ IF k \in DOMAIN hist.written.session
          THEN get_session_value(session_state, k) = hist.written.session[k]
          ELSE get_session_value(session_state, k) = Null
       /\ IF k \in DOMAIN hist.written.sync
          THEN get_sync_state(sync_state, k) = hist.written.sync[k]
          ELSE get_sync_state(sync_state, k) = Null

\* a set_session_value that replaced a different value of its key, with
\* the other key set as well
C21_Witness ==
  /\ last.op = "set_session_value"
  /\ last.arg[2]
  /\ DOMAIN session_state = StoreKeys

\* the time of a due_at text
TimeOf(due_at) == [day |-> due_at[1], minute |-> due_at[3]]

\* C22 as stated: get_due_reminders() returns exactly the local reminders
\* with due_at <= now that are neither completed nor notified, each once,
\* in ascending order of due_at.
C22_DueRemindersExact ==
  LET res == get_due_reminders(local_reminders, now)
  IN /\ Range(res) = {local_reminders[i] : i \in
                        {j \in DOMAIN local_reminders :
                           /\ ~local_reminders[j].is_completed
                           /\ ~local_reminders[j].notification_sent
                           /\ DueBy(local_reminders[j].due_at, now)}}
     /\ Len(res) = Cardinality(Range(res))
     /\ \A i, j \in DOMAIN res :
          i < j => ~Later(TimeOf(res[i].due_at), TimeOf(res[j].due_at))

\* C23: start() on a running daemon does nothing (no initialization, no
\* monitor run, the daemon stays running as it was), and stop() on a
\* daemon that is not running changes nothing.
C23_GuardedStartStop ==
  [][/\ (last'.op = "start" /\ daemon.running) =>
          /\ daemon' = Called(daemon)
          /\ last'.kind = "returned"
     /\ (last'.op = "stop" /\ ~daemon.running) =>
          /\ daemon' = Called(daemon)
          /\ last'.kind = "returned"]_vars

\* start() has returned on a daemon that is running
C23_Witness ==
  /\ last.op = "start"
  /\ daemon.running
  /\ daemon.events = <<>>

\* the persisted set reminder_notified_ids
NotifiedIds(session) == Range(SessionListOr(session, "reminder_notified_ids"))

Without(s, x) == SelectSeq(s, LAMBDA y : y # x)

\* C25: in every state of the voice monitor and for every answer of the
\* server, a VoiceMonitor.check() in which the remote
\* mark_voice_notification_delivered call raises for an id returns its
\* summary, leaves the log as the check without the failure leaves it (the
\* entry of the id included), speaks and acknowledges the other
\* notifications of the batch as without the failure, makes no further call
\* for the id, and a following check that receives the same answer does not
\* speak the id.
C25_RemoteMarkFailureIsNotLocal ==
  unit = "voice" =>
    \A resp \in VoiceResponses :
      LET c0 == NewCtx(session_state, notification_log, local_reminders)
          r0 == VoiceMonitor_check(c0, resp, 0, hasCallback)
      IN \A m \in Range(r0.ctx.markCalls) :
           LET r == VoiceMonitor_check(c0, resp, m.call, hasCallback)
               c == r.ctx
               again == VoiceMonitor_check(NewCtx(c.session, c.log, c.rows),
                                           resp, 0, hasCallback)
           IN /\ r.kind = "summary"
              /\ r.summary = r0.summary
              /\ was_notification_delivered(c.log, m.nid)
              /\ c.log = r0.ctx.log
              /\ c.delivered = r0.ctx.delivered
              /\ c.marked = Without(r0.ctx.marked, m.nid)
              /\ c.markCalls = r0.ctx.markCalls
              /\ c.calls = r0.ctx.calls
              /\ m.nid \notin Range(again.ctx.attempted)

\* a check spoke and logged two notifications, the server acknowledged
\* only the second: the remote call for the first one failed
C25_Witness ==
  /\ unit = "voice"
  /\ last.op = "check"
  /\ last.kind = "summary"
  /\ Len(last.delivered) = 2
  /\ last.marked = <<last.delivered[2]>>
  /\ \A i \in 1..2 : was_notification_delivered(notification_log, last.delivered[i])

\* the ids of the notification log
LoggedIds(log) == {log[i].notification_id : i \in DOMAIN log}

\* the answers in which the notification nid comes with a message
AnswersWith(nid) ==
  {resp \in VoiceResponses :
     \E i \in DOMAIN resp : Str(resp[i].id) = nid /\ VoiceText(resp[i]) # ""}

\* after a crash: every id that the crashed check had spoken and whose log
\* write had not committed is spoken by a check that receives it again
SpokenAgainAfterCrash(l, session, log, rows) ==
  l.op = "crash" =>
    \A nid \in Range(l.delivered) \ LoggedIds(log) :
      \A resp \in AnswersWith(nid) :
        nid \in Range(VoiceMonitor_check(NewCtx(session, log, rows), resp, 0,
                                         hasCallback).ctx.delivered)

\* C26: when the process dies after on_speak returned for an id and before
\* log_notification for it has committed, a check after the restart that
\* receives the id speaks it a second time; an id whose log write has
\* committed stays logged over crashes and is never spoken again, so that
\* an id is spoken a second time only if its log write did not commit.
C26_CrashBetweenSpeechAndLog ==
  [][/\ SpokenAgainAfterCrash(last', session_state', notification_log',
                              local_reminders')
     /\ LoggedIds(notification_log) \subseteq LoggedIds(notification_log')
     /\ IsCheck =>
          \A id \in Range(last'.delivered) :
            /\ id \notin LoggedIds(notification_log)
            /\ (id \in hist.spokenIds => id \in hist.logfailIds)]_vars

\* the check after a crash has spoken, and now logged, an id that had been
\* spoken before the crash without its log write committing
C26_Witness ==
  /\ last.op = "check"
  /\ last.afterRestart
  /\ \E id \in Range(last.delivered) :
       /\ id \in hist.logfailIds
       /\ id \in LoggedIds(notification_log)

\* the session_state keys a monitor's check writes
OwnKeys(u) ==
  CASE u = "email" -> {"email_unread_count", "email_high_priority"}
    [] u = "tasks" -> {"task_overdue_ids"}
    [] u = "calendar" -> {"calendar_last_notified"}
    [] u = "reminders" -> {"reminder_notified_ids"}
    [] u = "voice" -> {}

\* the rows of table f with a key in K
Restrict(f, K) == [k \in DOMAIN f \cap K |-> f[k]]

\* the rows without their notification_sent flags
Unflagged(rows) == [i \in DOMAIN rows |-> [rows[i] EXCEPT !.notification_sent = FALSE]]

\* the store with only the domain of monitor u in it
Alone(u, session, log, rows) ==
  NewCtx(Restrict(session, OwnKeys(u)),
         IF u = "voice" THEN log ELSE <<>>,
         IF u = "reminders" THEN rows ELSE <<>>)

\* C27: in every state that interleaved checks of the five monitors reach,
\* and for every answer they may get and every failing call, the check of a monitor
\* changes only its own part of the store (its session_state keys; for
\* voice the notification log; for reminders the notification_sent flags)
\* and does to that part, and notifies, exactly what it does on a store
\* that holds nothing of the other monitors.
C27_DisjointNamespaces ==
  \A u \in MonitorNames :
    \A resp \in MixResponses(u) :
      LET c0 == NewCtx(session_state, notification_log, local_reminders)
          a0 == Alone(u, session_state, notification_log, local_reminders)
      IN \A failAt \in 0..RunCheck(u, c0, resp, 0, hasCallback, now).ctx.calls :
           LET r == RunCheck(u, c0, resp, failAt, hasCallback, now)
               a == RunCheck(u, a0, resp, failAt, hasCallback, now)
           IN /\ Restrict(r.ctx.session, SessionKeys \ OwnKeys(u))
                   = Restrict(session_state, SessionKeys \ OwnKeys(u))
              /\ DOMAIN r.ctx.session \subseteq DOMAIN session_state \cup OwnKeys(u)
              /\ u # "voice" => r.ctx.log = notification_log
              /\ Unflagged(r.ctx.rows) = Unflagged(local_reminders)
              /\ u # "reminders" => r.ctx.rows = local_reminders
              /\ Restrict(r.ctx.session, OwnKeys(u)) = a.ctx.session
              /\ u = "voice" => r.ctx.log = a.ctx.log
              /\ u = "reminders" => r.ctx.rows = a.ctx.rows
              /\ r.kind = a.kind
              /\ r.summary = a.summary
              /\ r.ctx.attempted = a.ctx.attempted
              /\ r.ctx.delivered = a.ctx.delivered

\* interleaved checks have filled the part of every monitor: all five
\* session_state keys, a logged voice notification, a notified local reminder
C27_Witness ==
  /\ unit = "mix"
  /\ last.op = "check"
  /\ DOMAIN session_state = SessionKeys
  /\ notification_log # <<>>
  /\ \E i \in DOMAIN local_reminders : local_reminders[i].notification_sent

\* the ids, as notified, of the fetched tasks with the given is_overdue
TaskIdsWith(tasks, flag) ==
  {Str(tasks[i].id) : i \in {j \in DOMAIN tasks : tasks[j].is_overdue = flag}}

\* C30: whatever the persisted overdue set is, a task check() notifies no
\* task that is fetched as not overdue (a check that fetches no overdue task
\* notifies nothing); the tasks that are not overdue make up
\* due_today_count, and overdue_count + due_today_count is the number of
\* fetched tasks.
C30_NonOverdueOnlyCounted ==
  unit = "tasks" =>
    \A resp \in TaskResponses :
      LET c0 == NewCtx(session_state, notification_log, local_reminders)
      IN \A failAt \in 0..RunCheck("tasks", c0, resp, 0, hasCallback, now).ctx.calls :
           LET r == RunCheck("tasks", c0, resp, failAt, hasCallback, now)
           IN /\ Range(r.ctx.attempted) \cap TaskIdsWith(resp.tasks, FALSE) = {}
              /\ Range(r.ctx.attempted) \subseteq TaskIdsWith(resp.tasks, TRUE)
              /\ r.kind = "summary" =>
                   /\ r.summary.due_today_count
                        = Cardinality(TaskIdsWith(resp.tasks, FALSE))
                   /\ r.summary.overdue_count + r.summary.due_today_count
                        = Len(resp.tasks)

\* a task check() fetched overdue tasks and tasks that are not overdue,
\* notified, and returned its summary
C30_Witness ==
  /\ unit = "tasks"
  /\ last.op = "check"
  /\ last.kind = "summary"
  /\ last.summary.due_today_count >= 1
  /\ last.summary.overdue_count >= 1
  /\ last.attempted # <<>>

\* what C29 says of a check() that answered resp on a store without snapshot
\* keys and returned r
FirstCheckNotifiesAll(u, resp, r) ==
  CASE u = "email" ->
         /\ r.ctx.attempted = Take(resp.emails, NotifyCap)
         /\ r.summary.new_high_priority = Cardinality(Range(resp.emails))
    [] u = "tasks" ->
         LET overdue_tasks == SelectOverdue(resp.tasks, TRUE)
         IN /\ r.ctx.attempted
                 = Take([i \in DOMAIN overdue_tasks |-> Str(overdue_tasks[i].id)],
                        NotifyCap)
            /\ r.summary.new_overdue = Cardinality(TaskIdsWith(resp.tasks, TRUE))
    [] u = "reminders" ->
         /\ {Str(resp[i]) : i \in DOMAIN resp} \subseteq Range(r.ctx.attempted)
         /\ r.summary.new_notifications = Cardinality(Range(resp))
    [] u = "calendar" ->
         (resp.present /\ resp.start = "ok" /\ InWindow(resp.minutes))
           => r.ctx.attempted = <<resp.id>>

\* C29 as stated: a check() on a store without snapshot keys that returns
\* its summary has counted every fetched high-priority email (overdue task,
\* server due reminder) as new and notified it, the first three for email
\* and tasks, and has notified a calendar event that starts within the
\* window.
C29_MissingKeyIsEmpty ==
  (unit \in {"email", "tasks", "reminders", "calendar"} /\ session_state = <<>>) =>
    \A resp \in Responses(unit) :
      LET c0 == NewCtx(session_state, notification_log, local_reminders)
      IN \A failAt \in 0..RunCheck(unit, c0, resp, 0, hasCallback, now).ctx.calls :
           LET r == RunCheck(unit, c0, resp, failAt, hasCallback, now)
           IN r.kind = "summary" => FirstCheckNotifiesAll(unit, resp, r)

\* the ids of the local_reminders rows
RowIds(rows) == {rows[i].id : i \in DOMAIN rows}

\* every row of the old table is in the new one at its place, with its id
\* and due_at, and with each flag set that was set
RowsKept(old, new) ==
  /\ Len(old) <= Len(new)
  /\ \A i \in DOMAIN old :
       /\ new[i].id = old[i].id
       /\ new[i].due_at = old[i].due_at
       /\ old[i].is_completed => new[i].is_completed
       /\ old[i].notification_sent => new[i].notification_sent

\* C28: no operation of the store removes a row of notification_log,
\* local_reminders, sync_state or session_state or changes an entry of
\* notification_log; the logged notification ids and the local reminder ids
\* only grow, and no is_completed or notification_sent flag goes back from
\* true to false.
C28_AppendOnly ==
  [][/\ Len(notification_log) <= Len(notification_log')
     /\ \A i \in DOMAIN notification_log : notification_log'[i] = notification_log[i]
     /\ LoggedIds(notification_log) \subseteq LoggedIds(notification_log')
     /\ RowsKept(local_reminders, local_reminders')
     /\ RowIds(local_reminders) \subseteq RowIds(local_reminders')
     /\ DOMAIN sync_state \subseteq DOMAIN sync_state'
     /\ DOMAIN session_state \subseteq DOMAIN session_state']_vars

\* mark_reminder_complete was called for one of two reminders, which had
\* been marked as notified before: both rows are there, the flags of the
\* one are both set
C28_Witness ==
  /\ last.op = "mark_reminder_complete"
  /\ Len(local_reminders) >= 2
  /\ \E i \in DOMAIN local_reminders :
       /\ local_reminders[i].id = last.arg[1]
       /\ local_reminders[i].is_completed
       /\ local_reminders[i].notification_sent

C37_FailedStartLeavesNothingOpen ==
  (last.op = "start" /\ last.kind = "raised") =>
    LET after == stop(Called(daemon), 0).d
    IN /\ after.store # "open"
       /\ after.client # "constructed"
       /\ after.ollama # "constructed"

\* C38 as stated: of two start() calls of which the second began while the
\* first was suspended in initialize(), at most one initializes: they never
\* both hold an open store connection.
C38_OverlappingStartsInitializeOnce ==
  \A j \in DOMAIN starts :
    \A i \in starts[j].during :
      ~(starts[i].conn = "open" /\ starts[j].conn = "open")

\* C33 as stated: every notification_log entry with spoken = true that a
\* VoiceMonitor.check() adds, and every notification it marks as delivered
\* on the server, is for an id the speech callback was invoked with in that
\* check.
C33_LoggedOnlyIfSpoken ==
  [][(IsCheck /\ unit = "voice") =>
       /\ \A i \in (DOMAIN notification_log') \ (DOMAIN notification_log) :
            notification_log'[i].spoken
              => notification_log'[i].notification_id \in Range(last'.attempted)
       /\ Range(last'.marked) \subseteq Range(last'.attempted)]_vars

\* C36 as stated: reminder_notified_ids never loses an id, and after every
\* cycle it is the union of the server reminder ids in the answers of all
\* cycles that got past the fetch.
C36_NotifiedIdsIsUnionOfFetched ==
  [][unit = "reminders" =>
       /\ NotifiedIds(session_state) \subseteq NotifiedIds(session_state')
       /\ NotifiedIds(session_state') = env'.fetched]_vars

\* C36, amended: reminder_notified_ids never loses an id, whatever the
\* server returns, and after every cycle it is the union of the server
\* reminder ids in the answers of all cycles in which the fetch, the read of
\* the set and the write of the set returned.
C36_NotifiedIdsIsUnionOfStored ==
  [][unit = "reminders" =>
       /\ NotifiedIds(session_state) \subseteq NotifiedIds(session_state')
       /\ NotifiedIds(session_state') = env'.stored]_vars

\* a cycle in which the server returned no reminder has returned its
\* summary; the set holds the ids of earlier cycles
C36_Witness ==
  /\ unit = "reminders"
  /\ last.op = "cycle"
  /\ last.kind = "summary"
  /\ last.seen = {}
  /\ Cardinality(NotifiedIds(session_state)) = NumSmallIds
  /\ NotifiedIds(session_state) = env.stored

\* C35 as stated: a CalendarMonitor.check() cycle notifies no event id that
\* an earlier cycle notified, and a cycle that does not notify leaves
\* calendar_last_notified as it was.
C35_EventNotifiedAtMostOnce ==
  [][(unit = "calendar" /\ last'.op = "cycle") =>
       /\ Range(last'.delivered) \cap env.delivered = {}
       /\ last'.delivered = <<>> => session_state' = session_state]_vars

\* the ids in the persisted snapshot of the unit's monitor
SnapshotIds(u, session) ==
  CASE u = "email" -> Range(SessionListOr(session, "email_high_priority"))
    [] u = "tasks" -> Range(SessionListOr(session, "task_overdue_ids"))
    [] u = "reminders" -> Range(SessionListOr(session, "reminder_notified_ids"))

\* C32 as stated: after any sequence of cycles, every id in the persisted
\* snapshot (email_high_priority, task_overdue_ids, reminder_notified_ids)
\* is one for which a notification was attempted in some cycle.
C32_RecordedOnlyIfAttempted ==
  unit \in {"email", "tasks", "reminders"} =>
    SnapshotIds(unit, session_state) \subseteq env.attempted

\* the notification of the given id is pending on the server
IsPending(id) == \E i \in DOMAIN env.pending : env.pending[i].id = id

\* C34 as stated: every voice notification that is pending on the server is
\* eventually in the local log and no longer pending, over the repeated
\* cycles of the voice monitor.
C34_EveryPendingSettles ==
  \A id \in VoiceIds :
    IsPending(id) ~> (~IsPending(id) /\ Str(id) \in LoggedIds(notification_log))

=============================================================================
